---- MODULE Spec2Model ----
(***************************************************************************)
(* Model of the chat-with-data agent (src/chat_with_data/agent.py): the    *)
(* query safety gate, the tool dispatcher DataInsightsAgent.chat and its   *)
(* collaborators (completion service, store, issue tracker).               *)
(*                                                                         *)
(* Strings are TLA+ strings, handled character by character with Len,      *)
(* SubSeq and \o.  The alphabet is ASCII: letters, digits, punctuation and *)
(* the whitespace characters below.  A Python value that may be None is a  *)
(* tagged record: None, Str(s), Bool(b), Num(n), List(seq), Dict(pairs).   *)
(* A Python dict is the sequence of its <<key, value>> pairs in insertion  *)
(* order.                                                                  *)
(***************************************************************************)
EXTENDS Integers, Sequences, FiniteSets, TLC

(***************************************************************************)
(* Bounds of the model.                                                    *)
(***************************************************************************)
\* a chat call is started only while the history is shorter than this
MaxHistory == 2
\* the completion service returns at most this many tool invocations
MaxToolCalls == 2
\* a gate input is a prefix followed by at most this many fragments
MaxFragments == 2
\* a voice-to-image run is started only while the result history is shorter
MaxResults == 2

(***************************************************************************)
(* State.                                                                  *)
(***************************************************************************)
VARIABLES
    conversation_history, \* self.conversation_history
    github_env,           \* the tracker credentials set in the environment
    pc,                   \* position of the current chat call, "idle" if none
    user_message,         \* chat: user_message
    force_ticket,         \* chat: force_ticket
    message,              \* chat: message, the completion's message
    tool_index,           \* chat: position of tool_call in message.tool_calls
    returned,             \* the string the current or last chat call returned
    raised,               \* the exception the except clause of that call caught
    completion_calls,     \* requests sent to the completion service this call
    store_calls,          \* queries passed to execute_query this call
    tracker_calls,        \* calls of create_github_issue this call, with results
    github_requests,      \* issues sent to the GitHub API this call
    history_before,       \* conversation_history when the call started
    gate_query,           \* input of the last direct call of the gate
    gate_result,          \* result of that call
    issue_request,        \* arguments of a direct call of create_github_issue
    issue_result,         \* what that call returned
    processing,           \* st.session_state.processing
    processed_audio_hash, \* st.session_state.processed_audio_hash
    current_result,       \* st.session_state.current_result
    history,              \* st.session_state.history
    vpc,                  \* position of the current voice-to-image run
    run_input,            \* the audio or the text that started the run
    transcript,           \* process_audio: transcript
    pipeline_result,      \* process_voice_to_image: result
    shown,                \* the messages the run has put on the page
    transcription_calls,  \* calls of the transcription service this run
    expand_calls,         \* calls of the completion service this run
    image_calls,          \* calls of the image service this run
    decode_attempts,      \* convert_webm_to_wav: the decodings tried this run
    wav_bytes             \* transcribe_audio: wav_bytes

vars ==
    << conversation_history, github_env, pc, user_message, force_ticket,
       message, tool_index, returned, raised, completion_calls, store_calls,
       tracker_calls, github_requests, history_before, gate_query,
       gate_result, issue_request, issue_result, processing,
       processed_audio_hash, current_result, history, vpc, run_input,
       transcript, pipeline_result, shown, transcription_calls, expand_calls,
       image_calls, decode_attempts, wav_bytes >>

\* the variables of a direct call of create_github_issue
tracker_vars == << issue_request, issue_result >>

\* the variables of the voice-to-image session
voice_vars ==
    << processing, processed_audio_hash, current_result, history, vpc,
       run_input, transcript, pipeline_result, shown, transcription_calls,
       expand_calls, image_calls, decode_attempts, wav_bytes >>

\* the variables of convert_webm_to_wav
conversion_vars == << decode_attempts, wav_bytes >>

\* the variables the chat agent leaves alone
other_vars == << tracker_vars, voice_vars >>

\* the variables of a chat call and what it sends to its collaborators
chat_vars ==
    << conversation_history, pc, user_message, force_ticket, message,
       tool_index, returned, raised, completion_calls, store_calls,
       tracker_calls, github_requests, history_before >>

\* the variables the voice-to-image app leaves alone
chat_side == << chat_vars, github_env, gate_query, gate_result, tracker_vars >>

(***************************************************************************)
(* Python values.                                                          *)
(***************************************************************************)
None == [t |-> "null"]
Str(s) == [t |-> "str", v |-> s]
Bool(b) == [t |-> "bool", v |-> b]
Num(n) == [t |-> "int", v |-> n]
List(xs) == [t |-> "list", v |-> xs]
Dict(pairs) == [t |-> "dict", v |-> pairs]
\* a bytes object, the value of a BLOB column
Bytes == [t |-> "bytes"]

\* bool(v): None, "", False, 0, [] and {} are falsy
Truthy(v) ==
    CASE v.t = "null" -> FALSE
      [] v.t = "str"  -> v.v # ""
      [] v.t = "bool" -> v.v
      [] v.t = "int"  -> v.v # 0
      [] v.t = "list" -> v.v # <<>>
      [] v.t = "dict" -> v.v # <<>>

\* a or b
PyOr(a, b) == IF Truthy(a) THEN a ELSE b

\* d[key] of a dict that has the key
DictItem(d, key) ==
    LET i == CHOOSE j \in 1..Len(d.v) : d.v[j][1] = key IN d.v[i][2]

DictKeys(d) == {d.v[j][1] : j \in 1..Len(d.v)}

\* d.get(key, default)
DictGet(d, key, default) ==
    IF key \in DictKeys(d) THEN DictItem(d, key) ELSE default

(***************************************************************************)
(* str methods.                                                            *)
(***************************************************************************)
LowerCaseLetters == "abcdefghijklmnopqrstuvwxyz"
UpperCaseLetters == "ABCDEFGHIJKLMNOPQRSTUVWXYZ"
Whitespace == {" ", "\t", "\n", "\r", "\f"}

CharAt(s, i) == SubSeq(s, i, i)

\* the case mappings, character to character
UpperOf ==
    [c \in {CharAt(LowerCaseLetters, i) : i \in 1..Len(LowerCaseLetters)} |->
        CharAt(UpperCaseLetters,
               CHOOSE i \in 1..Len(LowerCaseLetters) : CharAt(LowerCaseLetters, i) = c)]

LowerOf ==
    [c \in {CharAt(UpperCaseLetters, i) : i \in 1..Len(UpperCaseLetters)} |->
        CharAt(LowerCaseLetters,
               CHOOSE i \in 1..Len(UpperCaseLetters) : CharAt(UpperCaseLetters, i) = c)]

RECURSIVE MapString(_, _)
\* every character of s that map has, replaced by its image
MapString(s, map) ==
    IF s = "" THEN ""
    ELSE LET c == CharAt(s, Len(s)) IN
         MapString(SubSeq(s, 1, Len(s) - 1), map)
             \o (IF c \in DOMAIN map THEN map[c] ELSE c)

\* s.upper()
upper(s) == MapString(s, UpperOf)

\* s.lower()
lower(s) == MapString(s, LowerOf)

\* s.strip()
strip(s) ==
    LET nonws == {i \in 1..Len(s) : CharAt(s, i) \notin Whitespace} IN
    IF nonws = {} THEN ""
    ELSE LET first == CHOOSE i \in nonws : \A j \in nonws : i <= j
             last  == CHOOSE i \in nonws : \A j \in nonws : j <= i
         IN SubSeq(s, first, last)

\* s.startswith(prefix)
startswith(s, prefix) ==
    /\ Len(prefix) <= Len(s)
    /\ SubSeq(s, 1, Len(prefix)) = prefix

\* sub in s
contains(sub, s) ==
    \E i \in 1..(Len(s) - Len(sub) + 1) : SubSeq(s, i, i + Len(sub) - 1) = sub

(***************************************************************************)
(* The safety gate.                                                        *)
(***************************************************************************)
DANGEROUS_KEYWORDS ==
    << "DROP", "DELETE", "TRUNCATE", "ALTER", "CREATE", "INSERT", "UPDATE",
       "EXEC", "EXECUTE", "GRANT", "REVOKE", "MERGE", "REPLACE" >>

OnlySelectReason == "Only SELECT queries are allowed for safety."

NotAllowedReason(keyword) ==
    "Operation '" \o keyword \o "' is not allowed for safety reasons."

\* the loop over DANGEROUS_KEYWORDS from position i on
RECURSIVE ScanKeywords(_, _)
ScanKeywords(query_upper, i) ==
    IF i > Len(DANGEROUS_KEYWORDS) THEN <<TRUE, None>>
    ELSE IF contains(DANGEROUS_KEYWORDS[i], query_upper)
         THEN <<FALSE, Str(NotAllowedReason(DANGEROUS_KEYWORDS[i]))>>
         ELSE ScanKeywords(query_upper, i + 1)

RECURSIVE ScanKeywordsBackwards(_, _)
\* the loop over DANGEROUS_KEYWORDS from position i down
ScanKeywordsBackwards(query_upper, i) ==
    IF i < 1 THEN <<TRUE, None>>
    ELSE IF contains(DANGEROUS_KEYWORDS[i], query_upper)
         THEN <<FALSE, Str(NotAllowedReason(DANGEROUS_KEYWORDS[i]))>>
         ELSE ScanKeywordsBackwards(query_upper, i - 1)

\* the gate with the denylist scanned from its last keyword to its first
GateScansBackwards(query) ==
    LET query_upper == strip(upper(query)) IN
    IF ~startswith(query_upper, "SELECT")
    THEN <<FALSE, Str(OnlySelectReason)>>
    ELSE ScanKeywordsBackwards(query_upper, Len(DANGEROUS_KEYWORDS))

\* the gate without the upper-casing of the query
GateWithoutUpper(query) ==
    LET query_upper == strip(query) IN
    IF ~startswith(query_upper, "SELECT")
    THEN <<FALSE, Str(OnlySelectReason)>>
    ELSE ScanKeywords(query_upper, 1)

\* the gate without the trimming of the query
GateWithoutStrip(query) ==
    LET query_upper == upper(query) IN
    IF ~startswith(query_upper, "SELECT")
    THEN <<FALSE, Str(OnlySelectReason)>>
    ELSE ScanKeywords(query_upper, 1)

\* the gate with the keyword scan before the SELECT test
GateKeywordsFirst(query) ==
    LET query_upper == strip(upper(query))
        scan == ScanKeywords(query_upper, 1)
    IN IF ~scan[1] THEN scan
       ELSE IF ~startswith(query_upper, "SELECT")
       THEN <<FALSE, Str(OnlySelectReason)>>
       ELSE <<TRUE, None>>

\* the gate with a verdict that depends on the conversation so far
GateStateful(query) ==
    LET query_upper == strip(upper(query)) IN
    IF ~startswith(query_upper, "SELECT") \/ conversation_history # <<>>
    THEN <<FALSE, Str(OnlySelectReason)>>
    ELSE ScanKeywords(query_upper, 1)

\* the body of DataInsightsAgent._check_query_safety
CheckQuerySafety(query) ==
    LET query_upper == strip(upper(query)) IN
    IF ~startswith(query_upper, "SELECT")
    THEN <<FALSE, Str(OnlySelectReason)>>
    ELSE ScanKeywords(query_upper, 1)

\* the queries the completion service sends in this model
SafeQuery == "SELECT name FROM customers"
UpdatedAtQuery == "select * from sales where updated_at > 0"

ModelQueries == {SafeQuery, UpdatedAtQuery}

\* what the body computes for the queries of the model, computed once
ModelQueryVerdicts == [query \in ModelQueries |-> CheckQuerySafety(query)]

\* DataInsightsAgent._check_query_safety: <<is_safe, error_msg>>
_check_query_safety(query) ==
    IF query \in DOMAIN ModelQueryVerdicts
    THEN ModelQueryVerdicts[query]
    ELSE CheckQuerySafety(query)

(***************************************************************************)
(* json.dumps and json.loads.  Strings of the model contain no character   *)
(* that json.dumps escapes.                                                *)
(***************************************************************************)
Digits == "0123456789"

RECURSIVE IntStr(_)
IntStr(n) ==
    IF n < 10 THEN CharAt(Digits, n + 1)
    ELSE IntStr(n \div 10) \o CharAt(Digits, (n % 10) + 1)

RECURSIVE json_dumps(_)
RECURSIVE DumpItems(_)
RECURSIVE DumpPairs(_)
\* the elements of a list, separated by ", "
DumpItems(xs) ==
    IF xs = <<>> THEN ""
    ELSE IF Len(xs) = 1 THEN json_dumps(xs[1])
    ELSE json_dumps(xs[1]) \o ", " \o DumpItems(Tail(xs))

\* the items of a dict, "key": value, separated by ", "
DumpPairs(ps) ==
    IF ps = <<>> THEN ""
    ELSE LET item == "\"" \o ps[1][1] \o "\": " \o json_dumps(ps[1][2]) IN
         IF Len(ps) = 1 THEN item ELSE item \o ", " \o DumpPairs(Tail(ps))

\* json.dumps raises TypeError on a value that holds a bytes object
RECURSIVE Serializable(_)
Serializable(v) ==
    CASE v.t = "bytes" -> FALSE
      [] v.t = "list"  -> \A i \in 1..Len(v.v) : Serializable(v.v[i])
      [] v.t = "dict"  -> \A i \in 1..Len(v.v) : Serializable(v.v[i][2])
      [] OTHER -> TRUE

NotSerializable == "Object of type bytes is not JSON serializable"

json_dumps(v) ==
    CASE v.t = "null" -> "null"
      [] v.t = "bool" -> IF v.v THEN "true" ELSE "false"
      [] v.t = "int"  -> IntStr(v.v)
      [] v.t = "str"  -> "\"" \o v.v \o "\""
      [] v.t = "list" -> "[" \o DumpItems(v.v) \o "]"
      [] v.t = "dict" -> "{" \o DumpPairs(v.v) \o "}"

\* the argument objects the completion service sends in this model
QueryArgs(q) == Dict(<< <<"query", Str(q)>> >>)

TicketArgs ==
    Dict(<< <<"title", Str("Dashboard is broken")>>,
            <<"description", Str("The dashboard shows no data")>>,
            <<"labels", List(<<Str("bug")>>)>> >>)

ArgumentObjects ==
    {QueryArgs(SafeQuery), QueryArgs(UpdatedAtQuery), TicketArgs, Dict(<<>>)}

\* their serialisations
ArgumentPayloads == [d \in ArgumentObjects |-> json_dumps(d)]

\* an arguments payload that is not JSON
MalformedArguments == "{\"query\": \"SELECT"

JSONDecodeError == [t |-> "JSONDecodeError"]

\* json.loads on the payloads of the model: the object whose serialisation
\* the payload is, JSONDecodeError when it is the serialisation of none
json_loads(payload) ==
    IF \E d \in ArgumentObjects : ArgumentPayloads[d] = payload
    THEN CHOOSE d \in ArgumentObjects : ArgumentPayloads[d] = payload
    ELSE JSONDecodeError

(***************************************************************************)
(* Inputs of the model: utterances and collaborator behaviours.            *)
(***************************************************************************)
PlainUtterance == "What are total sales by region?"
TicketUtterance == "please file a ticket, the dashboard is broken"

Utterances == {PlainUtterance, TicketUtterance}

\* utterances with a ticket-intent phrase, with and without "for"
DirectUtterances ==
    { "file a ticket for the dashboard",
      "file a ticket for x",
      "open a ticket",
      "file a ticket for login and for export",
      "information is wrong, file a ticket",
      "File a ticket For billing",
      "create a ticket for     ab  " }

\* utterances without a ticket-intent phrase, one of them about a ticket
UnforcedUtterances == {PlainUtterance, "my ticket is lost"}

GitHubVariables == {"GITHUB_TOKEN", "GITHUB_REPO_OWNER", "GITHUB_REPO_NAME"}

EnvConfigurations == {GitHubVariables, {}}

CompletionContents ==
    {None, Str(""), Str("Sales are highest in the North region.")}

\* name and arguments payload of the tool invocations the service may send
ToolCallOptions ==
    { <<"query_database", json_dumps(QueryArgs(SafeQuery))>>,
      <<"query_database", json_dumps(QueryArgs(UpdatedAtQuery))>>,
      <<"query_database", MalformedArguments>>,
      <<"create_support_ticket", json_dumps(TicketArgs)>>,
      <<"get_table_info", json_dumps(Dict(<<>>))>> }

ToolCall(i, option) ==
    [id |-> "call_" \o IntStr(i),
     function |-> [name |-> option[1], arguments |-> option[2]]]

ToolCallLists ==
    UNION { { [i \in 1..n |-> ToolCall(i, f[i])] : f \in [1..n -> ToolCallOptions] }
            : n \in 1..MaxToolCalls }

\* response.choices[0].message of the first completion: text and no tool
\* invocation, or tool invocations and no text
FirstMessages ==
    [content : CompletionContents, tool_calls : {<<>>}]
        \cup [content : {None}, tool_calls : ToolCallLists]

\* response.choices[0].message of the completion that offers no tools
FinalMessages ==
    [content : CompletionContents \ {Str("")}, tool_calls : {<<>>}]

CompletionErrors == {"Connection error."}

\* what execute_query does with a query: rows, rows with a BLOB value, or
\* sqlite3.Error
StoreOutcomes ==
    { [ok |-> TRUE,
       rows |-> << Dict(<< <<"name", Str("Acme")>> >>),
                   Dict(<< <<"name", Str("Globex")>> >>) >>],
      [ok |-> TRUE, rows |-> << Dict(<< <<"name", Bytes>> >>) >>],
      [ok |-> FALSE, error |-> "no such table: customers"] }

\* what the GitHub API does with an issue: the issue, or an exception
GitHubOutcomes ==
    { [ok |-> TRUE, html_url |-> "https://github.com/acme/support/issues/7",
       number |-> 7],
      [ok |-> FALSE, error |-> "401 Bad credentials"] }

NoOutcome == [ok |-> FALSE, error |-> ""]

(***************************************************************************)
(* The tools.                                                              *)
(***************************************************************************)
\* query_database without the safety check
QueryDatabaseUnchecked(query, outcome) ==
    IF outcome.ok
    THEN [result |-> Dict(<< <<"success", Bool(TRUE)>>,
                             <<"data", List(outcome.rows)>>,
                             <<"row_count", Num(Len(outcome.rows))>> >>),
          executed |-> <<query>>]
    ELSE [result |-> Dict(<< <<"success", Bool(FALSE)>>,
                             <<"error", Str(outcome.error)>>,
                             <<"data", None>> >>),
          executed |-> <<query>>]

\* DataInsightsAgent.query_database: the dict it returns and the queries it
\* passes to execute_query, given what the store does with the query
query_database(query, outcome) ==
    LET safety == _check_query_safety(query) IN
    IF ~safety[1]
    THEN [result |-> Dict(<< <<"success", Bool(FALSE)>>,
                             <<"error", safety[2]>>,
                             <<"data", None>> >>),
          executed |-> <<>>]
    ELSE IF outcome.ok
    THEN [result |-> Dict(<< <<"success", Bool(TRUE)>>,
                             <<"data", List(outcome.rows)>>,
                             <<"row_count", Num(Len(outcome.rows))>> >>),
          executed |-> <<query>>]
    ELSE [result |-> Dict(<< <<"success", Bool(FALSE)>>,
                             <<"error", Str(outcome.error)>>,
                             <<"data", None>> >>),
          executed |-> <<query>>]

MockUrl == "https://github.com/example/issues/1"

\* create_github_issue with the mock answer only when the token is missing
CreateIssueTokenOnly(title, description, labels, outcome) ==
    IF "GITHUB_TOKEN" \notin github_env
    THEN [result |-> Dict(<< <<"success", Bool(TRUE)>>,
                             <<"url", Str(MockUrl)>>,
                             <<"message", Str("Support ticket created (mock - configure GitHub credentials for real tickets)")>> >>),
          requests |-> <<>>]
    ELSE LET issue == [title |-> title, body |-> description,
                       labels |-> PyOr(labels, List(<<Str("support")>>))]
         IN IF outcome.ok
            THEN [result |-> Dict(<< <<"success", Bool(TRUE)>>,
                                     <<"url", Str(outcome.html_url)>>,
                                     <<"issue_number", Num(outcome.number)>>,
                                     <<"message", Str("Support ticket created successfully: " \o outcome.html_url)>> >>),
                  requests |-> <<issue>>]
            ELSE [result |-> Dict(<< <<"success", Bool(FALSE)>>,
                                     <<"error", Str(outcome.error)>>,
                                     <<"url", None>> >>),
                  requests |-> <<issue>>]

\* create_github_issue: the dict it returns and the issues it sends to the
\* GitHub API, given what the API does with the issue
create_github_issue(title, description, labels, outcome) ==
    IF ~(GitHubVariables \subseteq github_env)
    THEN [result |-> Dict(<< <<"success", Bool(TRUE)>>,
                             <<"url", Str(MockUrl)>>,
                             <<"message", Str("Support ticket created (mock - configure GitHub credentials for real tickets)")>> >>),
          requests |-> <<>>]
    ELSE LET issue == [title |-> title, body |-> description,
                       labels |-> PyOr(labels, List(<<Str("support")>>))]
         IN IF outcome.ok
            THEN [result |-> Dict(<< <<"success", Bool(TRUE)>>,
                                     <<"url", Str(outcome.html_url)>>,
                                     <<"issue_number", Num(outcome.number)>>,
                                     <<"message", Str("Support ticket created successfully: " \o outcome.html_url)>> >>),
                  requests |-> <<issue>>]
            ELSE [result |-> Dict(<< <<"success", Bool(FALSE)>>,
                                     <<"error", Str(outcome.error)>>,
                                     <<"url", None>> >>),
                  requests |-> <<issue>>]

\* DataInsightsAgent.create_support_ticket
create_support_ticket(title, description, labels, outcome) ==
    LET ticket == create_github_issue(title, description,
                                      PyOr(labels, List(<<>>)), outcome)
    IN [result |-> ticket.result, requests |-> ticket.requests,
        calls |-> << [title |-> title, description |-> description,
                      labels |-> PyOr(labels, List(<<>>)),
                      result |-> ticket.result] >>]

\* the outcomes the GitHub API can have when create_github_issue runs: it
\* answers whenever it is asked
TicketOutcomes == GitHubOutcomes

\* get_available_functions: the names of the tools offered
get_available_functions == <<"query_database", "create_support_ticket">>

(***************************************************************************)
(* DataInsightsAgent.chat.                                                 *)
(***************************************************************************)
ticket_keywords ==
    << "create a support ticket", "create support ticket", "file a ticket",
       "open a ticket", "create a ticket", "support ticket", "file ticket" >>

\* a scan of the utterance as typed, not lower-cased
AnyTicketKeywordAsTyped(msg) ==
    \E i \in 1..Len(ticket_keywords) : contains(ticket_keywords[i], msg)

\* any(keyword in user_message_lower for keyword in ticket_keywords)
AnyTicketKeyword(msg) ==
    LET user_message_lower == lower(msg) IN
    \E i \in 1..Len(ticket_keywords) :
        contains(ticket_keywords[i], user_message_lower)

\* what it is for the utterances of the model, computed once
UtteranceForcesTicket ==
    [msg \in Utterances \cup DirectUtterances \cup UnforcedUtterances |->
        AnyTicketKeyword(msg)]

\* force_ticket of a user message
ForceTicket(msg) ==
    IF msg \in DOMAIN UtteranceForcesTicket
    THEN UtteranceForcesTicket[msg]
    ELSE AnyTicketKeyword(msg)

\* tool_choice of the first completion
ToolChoice(force) ==
    IF force THEN "function:create_support_ticket" ELSE "auto"

\* user_message.split("for")[-1]
AfterLastFor(s) ==
    LET at == {i \in 1..(Len(s) - 2) : SubSeq(s, i, i + 2) = "for"} IN
    IF at = {} THEN s
    ELSE LET last == CHOOSE i \in at : \A j \in at : j <= i
         IN SubSeq(s, last + 3, Len(s))

\* user_message.split("for")[1]
AfterFirstFor(s) ==
    LET at == {i \in 1..(Len(s) - 2) : SubSeq(s, i, i + 2) = "for"} IN
    IF at = {} THEN s
    ELSE LET first == CHOOSE i \in at : \A j \in at : i <= j
         IN SubSeq(s, first + 3, Len(s))

\* the title taken from what follows the first "for"
DirectTitleFirstFor(msg) ==
    LET title == IF contains("for", msg) THEN strip(AfterFirstFor(msg))
                 ELSE "Support Request"
    IN IF title = "" \/ Len(title) < 5 THEN "Support Request" ELSE title

\* title of the ticket created directly from the user message
DirectTitle(msg) ==
    LET title == IF contains("for", msg) THEN strip(AfterLastFor(msg))
                 ELSE "Support Request"
    IN IF title = "" \/ Len(title) < 5 THEN "Support Request" ELSE title

\* a value formatted in an f-string
Format(v) ==
    CASE v.t = "null" -> "None"
      [] v.t = "str"  -> v.v
      [] v.t = "bool" -> IF v.v THEN "True" ELSE "False"
      [] v.t = "int"  -> IntStr(v.v)

\* the string returned after a direct ticket
DirectTicketReply(title, result) ==
    IF Truthy(DictGet(result, "success", None))
    THEN "I've created a support ticket for you!\n\n**Title:** " \o title
         \o "\n**Ticket URL:** " \o Format(DictGet(result, "url", Str("N/A")))
         \o "\n\nThe support team will review your request and get back to you soon."
    ELSE "I attempted to create a support ticket, but encountered an issue: "
         \o Format(DictGet(result, "error", Str("Unknown error")))
         \o ". Please try again or contact support directly."

\* the string returned by the except clause of chat
ErrorReply(e) ==
    "I encountered an error: " \o e
    \o ". Would you like me to create a support ticket for this issue?"

DefaultReply == "I've processed your request."

UserTurn(msg) == [role |-> "user", content |-> Str(msg)]

AssistantTurn(text) == [role |-> "assistant", content |-> Str(text)]

\* the assistant turn recording one tool invocation
ToolCallTurn(content, tool_call) ==
    [role |-> "assistant", content |-> content,
     tool_calls |-> << [id |-> tool_call.id, type |-> "function",
                        function |-> [name |-> tool_call.function.name,
                                      arguments |-> tool_call.function.arguments]] >>]

ToolResultTurn(tool_call, result) ==
    [role |-> "tool", tool_call_id |-> tool_call.id,
     content |-> Str(json_dumps(result))]

NoMessage == [content |-> None, tool_calls |-> <<>>]

\* the exception that dispatching a tool invocation raises before the tool
\* runs, "" when it raises none
ArgumentError(tool_call) ==
    LET function_name == tool_call.function.name
        function_args == json_loads(tool_call.function.arguments)
    IN IF function_args = JSONDecodeError
       THEN "Unterminated string starting at: line 1 column 11 (char 10)"
       ELSE IF /\ function_name = "query_database"
               /\ DictKeys(function_args) # {"query"}
       THEN "query_database() got an unexpected keyword argument"
       ELSE IF /\ function_name = "create_support_ticket"
               /\ ~ /\ {"title", "description"} \subseteq DictKeys(function_args)
                    /\ DictKeys(function_args) \subseteq {"title", "description", "labels"}
       THEN "create_support_ticket() got an unexpected keyword argument"
       ELSE IF /\ function_name = "query_database"
               /\ DictItem(function_args, "query").t # "str"
       THEN "object has no attribute 'upper'"
       ELSE ""

\* the request of a completion round-trip
CompletionRequest(tools, tool_choice) ==
    [messages |-> conversation_history, tools |-> tools,
     tool_choice |-> tool_choice]

(***************************************************************************)
(* The voice-to-image app: inputs and collaborator behaviours.             *)
(***************************************************************************)
NoInput == [kind |-> "", data |-> ""]

\* two recordings
AudioInputs == {"fox", "noise"}

\* hashlib.md5(audio_bytes).hexdigest() of the recordings and of the files
get_audio_hash(audio_bytes) ==
    Str(CASE audio_bytes = "fox" -> "2b95d1f09b8b66c5c43622a4d9ec9a04"
          [] audio_bytes = "noise" -> "aaddc3454ccbefbb2d8d8461f8f7f481"
          [] audio_bytes = "long" -> "0f5264038205edfb1ac05fbb0e8c5e94"
          [] audio_bytes = "longer" -> "67c35b0654107413e3a1dcbafa96a45c"
          [] audio_bytes = "" -> "d41d8cd98f00b204e9800998ecf8427e")

MAX_FILE_SIZE == 10 * 1024 * 1024

\* the files put in the uploader: size is uploaded_file.size and data what
\* uploaded_file.read() returns; the last one reads as nothing
UploadedFiles ==
    { [size |-> 0, data |-> ""],
      [size |-> 3, data |-> "fox"],
      [size |-> MAX_FILE_SIZE, data |-> "long"],
      [size |-> MAX_FILE_SIZE + 1, data |-> "longer"],
      [size |-> 5, data |-> ""] }

\* f"{size / (1024*1024):.1f}MB"
Megabytes(size) ==
    LET tenths == (size * 10 + 524288) \div 1048576 IN
    IntStr(tenths \div 10) \o "." \o IntStr(tenths % 10) \o "MB"

\* what AudioSegment.from_file does with the bytes: the audio, with its
\* frame rate and channels, or an exception
DecodeOutcomes ==
    { [ok |-> TRUE, audio |-> [frame_rate |-> 48000, channels |-> 2]],
      [ok |-> TRUE, audio |-> [frame_rate |-> 16000, channels |-> 1]],
      [ok |-> FALSE] }

\* no conversion has returned
NoWav == [t |-> "none"]

\* the bytes as they came in
RawBytes(audio_bytes) == [t |-> "raw", data |-> audio_bytes]

\* audio.set_frame_rate(rate)
set_frame_rate(audio, rate) == [audio EXCEPT !.frame_rate = rate]

\* audio.set_channels(n)
set_channels(audio, n) == [audio EXCEPT !.channels = n]

\* audio.export(wav_buffer, format="wav"); wav_buffer.getvalue()
export_wav(audio, audio_bytes) ==
    [t |-> "wav", frame_rate |-> audio.frame_rate,
     channels |-> audio.channels, of |-> audio_bytes]

\* what the text area holds when the button is pressed
TextInputs == {"", "   ", " a blue whale "}

\* what recognize_google does: text, UnknownValueError, RequestError; or
\* reading the audio raises before it is called
TranscriptionOutcomes ==
    { [kind |-> "text", text |-> "a red fox at dawn"],
      [kind |-> "text", text |-> ""],
      [kind |-> "UnknownValueError", text |-> ""],
      [kind |-> "RequestError", text |-> ""],
      [kind |-> "Exception", text |-> ""] }

\* what the completion service does with the prompt
ExpandOutcomes ==
    { [ok |-> TRUE, content |-> Str("  A red fox in golden morning light.\n")],
      [ok |-> TRUE, content |-> None],
      [ok |-> FALSE, error |-> "Connection error."] }

\* what the image service does with the description
RenderOutcomes ==
    { [ok |-> TRUE, url |-> "https://images.example/fox.png"],
      [ok |-> FALSE, error |-> "Your request was rejected by the safety system."] }

\* the session state of the voice-to-image app before any input
VoiceSessionStart ==
    /\ processing = FALSE
    /\ processed_audio_hash = None
    /\ current_result = None
    /\ history = <<>>
    /\ vpc = "idle"
    /\ run_input = NoInput
    /\ transcript = None
    /\ pipeline_result = None
    /\ shown = <<>>
    /\ transcription_calls = <<>>
    /\ expand_calls = <<>>
    /\ image_calls = <<>>
    /\ decode_attempts = <<>>
    /\ wav_bytes = NoWav

\* no direct call of create_github_issue has been made
NoIssueCall ==
    /\ issue_request = <<>>
    /\ issue_result = <<>>

Init ==
    /\ NoIssueCall
    /\ VoiceSessionStart
    /\ conversation_history = <<>>
    /\ github_env \in EnvConfigurations
    /\ pc = "idle"
    /\ user_message = ""
    /\ force_ticket = FALSE
    /\ message = NoMessage
    /\ tool_index = 0
    /\ returned = None
    /\ raised = None
    /\ completion_calls = <<>>
    /\ store_calls = <<>>
    /\ tracker_calls = <<>>
    /\ github_requests = <<>>
    /\ history_before = <<>>
    /\ gate_query = ""
    /\ gate_result = <<>>

\* chat, up to the first completion call
ChatStart(msg) ==
    /\ pc = "idle"
    /\ Len(conversation_history) < MaxHistory
    /\ user_message' = msg
    /\ force_ticket' = ForceTicket(msg)
    /\ conversation_history' = Append(conversation_history, UserTurn(msg))
    /\ history_before' = conversation_history
    /\ message' = NoMessage
    /\ tool_index' = 0
    /\ returned' = None
    /\ raised' = None
    /\ completion_calls' = <<>>
    /\ store_calls' = <<>>
    /\ tracker_calls' = <<>>
    /\ github_requests' = <<>>
    /\ pc' = "awaiting_completion"
    /\ UNCHANGED <<github_env, gate_query, gate_result, other_vars>>

\* no except clause: the exception leaves chat
ExceptionPropagates(e) ==
    /\ raised' = Str(e)
    /\ returned' = None
    /\ conversation_history' = conversation_history
    /\ pc' = "idle"

\* an except clause that restores the history of before the call
ExceptionRollback(e) ==
    /\ raised' = Str(e)
    /\ returned' = Str(ErrorReply(e))
    /\ conversation_history' = history_before
    /\ pc' = "idle"

\* the except clause of chat: the history stays as it is
ExceptionReturn(e) ==
    /\ raised' = Str(e)
    /\ returned' = Str(ErrorReply(e))
    /\ conversation_history' = conversation_history
    /\ pc' = "idle"

\* the end of chat without the fallback text
ReplyWithoutFallback(m) ==
    /\ conversation_history' =
           Append(conversation_history, [role |-> "assistant", content |-> m.content])
    /\ returned' = m.content
    /\ raised' = None
    /\ pc' = "idle"

\* an end of chat that stores the assistant turn over the last turn
ReplyOverwritesLast(m) ==
    LET assistant_response == PyOr(m.content, Str(DefaultReply)) IN
    /\ conversation_history' =
           [conversation_history EXCEPT ![Len(conversation_history)] =
               AssistantTurn(assistant_response.v)]
    /\ returned' = assistant_response
    /\ raised' = None
    /\ pc' = "idle"

\* the end of chat: the assistant turn is appended and its text returned
ReplyReturn(m) ==
    LET assistant_response == PyOr(m.content, Str(DefaultReply)) IN
    /\ conversation_history' =
           Append(conversation_history, AssistantTurn(assistant_response.v))
    /\ returned' = assistant_response
    /\ raised' = None
    /\ pc' = "idle"

\* the first completion call raises
FirstCompletionRaises(e) ==
    /\ pc = "awaiting_completion"
    /\ completion_calls' =
           Append(completion_calls,
                  CompletionRequest(get_available_functions, ToolChoice(force_ticket)))
    /\ ExceptionReturn(e)
    /\ UNCHANGED <<github_env, user_message, force_ticket,
                   message, tool_index, store_calls, tracker_calls,
                   github_requests, history_before, gate_query, gate_result, other_vars>>

\* a chat that files the ticket itself whenever no tool call comes back
FirstCompletionAlwaysTickets(m) ==
    /\ pc = "awaiting_completion"
    /\ completion_calls' =
           Append(completion_calls,
                  CompletionRequest(get_available_functions, ToolChoice(force_ticket)))
    /\ message' = m
    /\ IF m.tool_calls = <<>>
       THEN /\ pc' = "direct_ticket"
            /\ UNCHANGED <<conversation_history, returned, raised, tool_index>>
       ELSE /\ pc' = "tool_execution"
            /\ tool_index' = 1
            /\ UNCHANGED <<conversation_history, returned, raised>>
    /\ UNCHANGED <<github_env, user_message, force_ticket, store_calls,
                   tracker_calls, github_requests, history_before, gate_query,
                   gate_result, other_vars>>

\* the first completion call returns the message m
FirstCompletionReturns(m) ==
    /\ pc = "awaiting_completion"
    /\ completion_calls' =
           Append(completion_calls,
                  CompletionRequest(get_available_functions, ToolChoice(force_ticket)))
    /\ message' = m
    /\ IF force_ticket /\ m.tool_calls = <<>>
       THEN /\ pc' = "direct_ticket"
            /\ UNCHANGED <<conversation_history, returned, raised, tool_index>>
       ELSE IF m.tool_calls # <<>>
       THEN /\ pc' = "tool_execution"
            /\ tool_index' = 1
            /\ UNCHANGED <<conversation_history, returned, raised>>
       ELSE /\ ReplyReturn(m)
            /\ UNCHANGED tool_index
    /\ UNCHANGED <<github_env, user_message, force_ticket, store_calls,
                   tracker_calls, github_requests, history_before, gate_query,
                   gate_result, other_vars>>

\* a direct ticket followed by a completion call that words the reply
DirectTicketWithSummary ==
    /\ pc = "direct_ticket"
    /\ \E outcome \in TicketOutcomes :
         LET title == DirectTitle(user_message)
             ticket == create_support_ticket(Str(title), Str(user_message),
                                             List(<<Str("support")>>), outcome)
         IN /\ tracker_calls' = tracker_calls \o ticket.calls
            /\ github_requests' = github_requests \o ticket.requests
            /\ returned' = Str(DirectTicketReply(title, ticket.result))
    /\ completion_calls' =
           Append(completion_calls, CompletionRequest(<<>>, ""))
    /\ raised' = None
    /\ pc' = "idle"
    /\ UNCHANGED <<conversation_history, github_env, user_message, force_ticket,
                   message, tool_index, store_calls,
                   history_before, gate_query, gate_result, other_vars>>

\* force_ticket and no tool call: the ticket is created from the user message
DirectTicket ==
    /\ pc = "direct_ticket"
    /\ \E outcome \in TicketOutcomes :
         LET title == DirectTitle(user_message)
             ticket == create_support_ticket(Str(title), Str(user_message),
                                             List(<<Str("support")>>), outcome)
         IN /\ tracker_calls' = tracker_calls \o ticket.calls
            /\ github_requests' = github_requests \o ticket.requests
            /\ returned' = Str(DirectTicketReply(title, ticket.result))
    /\ raised' = None
    /\ pc' = "idle"
    /\ UNCHANGED <<conversation_history, github_env, user_message, force_ticket,
                   message, tool_index, completion_calls, store_calls,
                   history_before, gate_query, gate_result, other_vars>>

\* the tool invocation the for loop of chat is at
CurrentToolCall == message.tool_calls[tool_index]

\* a loop that leaves after the first invocation
NextToolCallOnlyFirst ==
    /\ tool_index' = tool_index + 1
    /\ pc' = "awaiting_final_completion"

\* the loop moves to the next invocation, or on to the final completion
NextToolCall ==
    /\ tool_index' = tool_index + 1
    /\ pc' = IF tool_index = Len(message.tool_calls)
             THEN "awaiting_final_completion" ELSE "tool_execution"

\* the result turn alone is appended to the history
AppendResultOnly(tool_call, result) ==
    IF Serializable(result)
    THEN /\ conversation_history' =
                Append(conversation_history, ToolResultTurn(tool_call, result))
         /\ NextToolCall
         /\ UNCHANGED <<returned, raised>>
    ELSE /\ conversation_history' = conversation_history
         /\ raised' = Str(NotSerializable)
         /\ returned' = Str(ErrorReply(NotSerializable))
         /\ pc' = "idle"
         /\ UNCHANGED tool_index

\* the invocation and its result are appended to the history and the loop
\* goes on; when json.dumps raises on the result, the invocation alone has
\* been appended and the except clause returns
AppendToolTurns(tool_call, result) ==
    IF Serializable(result)
    THEN /\ conversation_history' =
                conversation_history
                    \o << ToolCallTurn(message.content, tool_call),
                          ToolResultTurn(tool_call, result) >>
         /\ NextToolCall
         /\ UNCHANGED <<returned, raised>>
    ELSE /\ conversation_history' =
                Append(conversation_history,
                       ToolCallTurn(message.content, tool_call))
         /\ raised' = Str(NotSerializable)
         /\ returned' = Str(ErrorReply(NotSerializable))
         /\ pc' = "idle"
         /\ UNCHANGED tool_index

\* json.loads or the call of the tool raises: the except clause returns
ToolArgumentsFail ==
    /\ pc = "tool_execution"
    /\ ArgumentError(CurrentToolCall) # ""
    /\ ExceptionReturn(ArgumentError(CurrentToolCall))
    /\ UNCHANGED <<github_env, user_message, force_ticket,
                   message, tool_index, completion_calls, store_calls,
                   tracker_calls, github_requests, history_before, gate_query,
                   gate_result, other_vars>>

\* the outcomes the store can have when query_database runs the query
QueryOutcomes(query) ==
    IF _check_query_safety(query)[1] THEN StoreOutcomes ELSE {NoOutcome}

\* one iteration of the loop, for an invocation of query_database
ToolQueryDatabase ==
    /\ pc = "tool_execution"
    /\ ArgumentError(CurrentToolCall) = ""
    /\ CurrentToolCall.function.name = "query_database"
    /\ LET function_args == json_loads(CurrentToolCall.function.arguments)
           query == DictItem(function_args, "query").v
       IN \E outcome \in QueryOutcomes(query) :
            LET call == query_database(query, outcome) IN
            /\ store_calls' = store_calls \o call.executed
            /\ AppendToolTurns(CurrentToolCall, call.result)
    /\ UNCHANGED <<github_env, user_message, force_ticket, message,
                   completion_calls, tracker_calls, github_requests,
                   history_before, gate_query, gate_result, other_vars>>

\* one iteration of the loop, for an invocation of create_support_ticket
ToolCreateTicket ==
    /\ pc = "tool_execution"
    /\ ArgumentError(CurrentToolCall) = ""
    /\ CurrentToolCall.function.name = "create_support_ticket"
    /\ LET function_args == json_loads(CurrentToolCall.function.arguments) IN
       \E outcome \in TicketOutcomes :
            LET call == create_support_ticket(
                            DictItem(function_args, "title"),
                            DictItem(function_args, "description"),
                            DictGet(function_args, "labels", None), outcome)
            IN /\ tracker_calls' = tracker_calls \o call.calls
               /\ github_requests' = github_requests \o call.requests
               /\ AppendToolTurns(CurrentToolCall, call.result)
    /\ UNCHANGED <<github_env, user_message, force_ticket, message,
                   completion_calls, store_calls, history_before, gate_query,
                   gate_result, other_vars>>

\* one iteration of the loop, for an invocation that names neither tool:
\* no branch of the if statement is taken
ToolOther ==
    /\ pc = "tool_execution"
    /\ ArgumentError(CurrentToolCall) = ""
    /\ CurrentToolCall.function.name \notin
           {"query_database", "create_support_ticket"}
    /\ NextToolCall
    /\ UNCHANGED <<conversation_history, github_env, user_message,
                   force_ticket, message, returned, raised, completion_calls,
                   store_calls, tracker_calls, github_requests, history_before,
                   gate_query, gate_result, other_vars>>

\* the completion call after the tools raises
FinalCompletionRaises(e) ==
    /\ pc = "awaiting_final_completion"
    /\ completion_calls' =
           Append(completion_calls, CompletionRequest(<<>>, ""))
    /\ ExceptionReturn(e)
    /\ UNCHANGED <<github_env, user_message, force_ticket,
                   message, tool_index, store_calls, tracker_calls,
                   github_requests, history_before, gate_query, gate_result, other_vars>>

\* the completion call after the tools returns the message m
FinalCompletionReturns(m) ==
    /\ pc = "awaiting_final_completion"
    /\ completion_calls' =
           Append(completion_calls, CompletionRequest(<<>>, ""))
    /\ message' = m
    /\ ReplyReturn(m)
    /\ UNCHANGED <<github_env, user_message, force_ticket, tool_index,
                   store_calls, tracker_calls, github_requests, history_before,
                   gate_query, gate_result, other_vars>>

\* DataInsightsAgent.reset_conversation
reset_conversation ==
    /\ pc = "idle"
    /\ conversation_history' = <<>>
    /\ UNCHANGED <<github_env, pc, user_message, force_ticket, message,
                   tool_index, returned, raised, completion_calls, store_calls,
                   tracker_calls, github_requests, history_before, gate_query,
                   gate_result, other_vars>>

\* a call of _check_query_safety on the agent, between chat calls
CheckSafety(query) ==
    /\ pc = "idle"
    /\ gate_query' = query
    /\ gate_result' = _check_query_safety(query)
    /\ UNCHANGED <<github_env, chat_vars, other_vars>>

Next ==
    \/ \E msg \in Utterances : ChatStart(msg)
    \/ \E e \in CompletionErrors : FirstCompletionRaises(e)
    \/ \E m \in FirstMessages : FirstCompletionReturns(m)
    \/ DirectTicket
    \/ ToolArgumentsFail
    \/ ToolQueryDatabase
    \/ ToolCreateTicket
    \/ ToolOther
    \/ \E e \in CompletionErrors : FinalCompletionRaises(e)
    \/ \E m \in FinalMessages : FinalCompletionReturns(m)
    \/ reset_conversation
    \/ \E query \in ModelQueries : CheckSafety(query)

Spec == Init /\ [][Next]_vars

(***************************************************************************)
(* The direct-ticket branch on its own: calls of chat with the utterances  *)
(* of DirectUtterances and UnforcedUtterances, answered by a completion    *)
(* without tool invocation.                                                *)
(***************************************************************************)
DirectMessages == [content : CompletionContents, tool_calls : {<<>>}]

NextDirect ==
    \/ \E msg \in DirectUtterances \cup UnforcedUtterances : ChatStart(msg)
    \/ \E e \in CompletionErrors : FirstCompletionRaises(e)
    \/ \E m \in DirectMessages : FirstCompletionReturns(m)
    \/ DirectTicket
    \/ reset_conversation

SpecDirect == Init /\ [][NextDirect]_vars

(***************************************************************************)
(* The voice-to-image app: process_audio, the text input, the pipeline     *)
(* VoiceToImageAgent.process_voice_to_image and the Clear History button.  *)
(***************************************************************************)
\* transcribe_audio: the text, None when there is none
transcribe_audio(outcome) ==
    IF outcome.kind = "text" THEN Str(outcome.text) ELSE None

\* transcript_to_image_description: the description, or the exception
transcript_to_image_description(outcome) ==
    IF ~outcome.ok THEN [ok |-> FALSE, error |-> outcome.error]
    ELSE IF outcome.content = None
    THEN [ok |-> FALSE, error |-> "'NoneType' object has no attribute 'strip'"]
    ELSE [ok |-> TRUE, description |-> strip(outcome.content.v)]

\* generate_image with an except clause that returns instead of raising
GenerateImageSwallows(outcome) ==
    IF outcome.ok THEN [ok |-> TRUE, image_url |-> outcome.url]
    ELSE [ok |-> TRUE, image_url |-> ""]

\* generate_image: the URL, or the exception
generate_image(outcome) ==
    IF outcome.ok THEN [ok |-> TRUE, image_url |-> outcome.url]
    ELSE [ok |-> FALSE, error |-> outcome.error]

\* result as process_voice_to_image creates it
InitialResult(text) ==
    Dict(<< <<"transcript", Str(text)>>,
            <<"text_model", Str("gpt-4")>>,
            <<"image_model", Str("dall-e-3")>>,
            <<"image_size", Str("1024x1024")>>,
            <<"image_quality", Str("standard")>> >>)

\* d[key] = value for a key the dict does not have
DictSet(d, key, value) == Dict(Append(d.v, <<key, value>>))

\* process_audio up to the call of transcribe_audio
process_audio(audio_bytes) ==
    /\ vpc = "idle"
    /\ Len(history) < MaxResults
    /\ ~processing
    /\ get_audio_hash(audio_bytes) # processed_audio_hash
    /\ processing' = TRUE
    /\ processed_audio_hash' = get_audio_hash(audio_bytes)
    /\ transcript' = None
    /\ pipeline_result' = None
    /\ shown' = <<>>
    /\ transcription_calls' = <<>>
    /\ expand_calls' = <<>>
    /\ image_calls' = <<>>
    /\ decode_attempts' = <<>>
    /\ wav_bytes' = NoWav
    /\ vpc' = "convert"
    /\ UNCHANGED <<current_result, history, chat_side>>

\* a run of the script that calls no collaborator and shows the messages
NoRun(messages) ==
    /\ shown' = messages
    /\ transcript' = None
    /\ pipeline_result' = None
    /\ transcription_calls' = <<>>
    /\ expand_calls' = <<>>
    /\ image_calls' = <<>>
    /\ decode_attempts' = <<>>
    /\ wav_bytes' = NoWav
    /\ UNCHANGED <<processing, processed_audio_hash, current_result, history,
                   vpc, chat_side>>

\* the recorder holds a recording: main calls process_audio unless a run is
\* in progress or the recording has the fingerprint of the last one
record_audio(audio_bytes) ==
    /\ vpc = "idle"
    /\ run_input' = [kind |-> "audio", data |-> audio_bytes]
    /\ IF /\ ~processing
          /\ get_audio_hash(audio_bytes) # processed_audio_hash
       THEN process_audio(audio_bytes)
       ELSE NoRun(<<>>)

\* an uploader that does not look at the size of the file
UploadAudioNoLimit(file) ==
    /\ vpc = "idle"
    /\ run_input' = [kind |-> "upload", data |-> file.data, size |-> file.size]
    /\ IF processing
       THEN NoRun(<<"warning: Processing in progress. Please wait for the current task to complete.">>)
       ELSE IF get_audio_hash(file.data) # processed_audio_hash
       THEN process_audio(file.data)
       ELSE NoRun(<<"info: This file has already been processed. Upload a different file or record new audio.">>)

\* the uploader holds a file: main checks its size and what it reads from
\* it before it calls process_audio
upload_audio(file) ==
    /\ vpc = "idle"
    /\ run_input' = [kind |-> "upload", data |-> file.data, size |-> file.size]
    /\ IF file.size > MAX_FILE_SIZE
       THEN NoRun(<< "error: File too large! Maximum size is "
                        \o Megabytes(MAX_FILE_SIZE) \o ". Your file is "
                        \o Megabytes(file.size) \o ".",
                    "info: Please compress your audio file or record a shorter clip." >>)
       ELSE IF file.size = 0
       THEN NoRun(<<"error: File is empty. Please upload a valid audio file.">>)
       ELSE IF processing
       THEN NoRun(<<"warning: Processing in progress. Please wait for the current task to complete.">>)
       ELSE IF Len(file.data) = 0
       THEN NoRun(<<"error: Failed to read file. The file might be corrupted or empty.">>)
       ELSE IF get_audio_hash(file.data) # processed_audio_hash
       THEN process_audio(file.data)
       ELSE NoRun(<<"info: This file has already been processed. Upload a different file or record new audio.">>)

\* a convert_webm_to_wav that gives up after the first decoding
ConvertAutoDetectNoRetry ==
    /\ vpc = "convert"
    /\ \E outcome \in DecodeOutcomes :
         /\ decode_attempts' =
                Append(decode_attempts, [format |-> "auto", ok |-> outcome.ok])
         /\ wav_bytes' =
                IF outcome.ok
                THEN export_wav(set_channels(set_frame_rate(outcome.audio, 16000), 1),
                                run_input.data)
                ELSE RawBytes(run_input.data)
         /\ vpc' = "transcribe"
    /\ UNCHANGED <<processing, processed_audio_hash, current_result, history,
                   run_input, transcript, pipeline_result, shown,
                   transcription_calls, expand_calls, image_calls, chat_side>>

\* convert_webm_to_wav, the first try block: the format is detected
ConvertAutoDetect ==
    /\ vpc = "convert"
    /\ \E outcome \in DecodeOutcomes :
         /\ decode_attempts' =
                Append(decode_attempts, [format |-> "auto", ok |-> outcome.ok])
         /\ IF outcome.ok
            THEN /\ wav_bytes' =
                        export_wav(set_channels(set_frame_rate(outcome.audio, 16000), 1),
                                   run_input.data)
                 /\ vpc' = "transcribe"
            ELSE /\ vpc' = "convert_webm"
                 /\ UNCHANGED wav_bytes
    /\ UNCHANGED <<processing, processed_audio_hash, current_result, history,
                   run_input, transcript, pipeline_result, shown,
                   transcription_calls, expand_calls, image_calls, chat_side>>

\* convert_webm_to_wav, the except clause: the bytes are read as WebM, and
\* returned as they are when that fails too
ConvertAsWebM ==
    /\ vpc = "convert_webm"
    /\ \E outcome \in DecodeOutcomes :
         /\ decode_attempts' =
                Append(decode_attempts, [format |-> "webm", ok |-> outcome.ok])
         /\ wav_bytes' =
                IF outcome.ok
                THEN export_wav(set_channels(set_frame_rate(outcome.audio, 16000), 1),
                                run_input.data)
                ELSE RawBytes(run_input.data)
         /\ vpc' = "transcribe"
    /\ UNCHANGED <<processing, processed_audio_hash, current_result, history,
                   run_input, transcript, pipeline_result, shown,
                   transcription_calls, expand_calls, image_calls, chat_side>>

\* the exceptions a statement of process_audio can raise
UnexpectedErrors == {"'NoneType' object has no attribute 'process_voice_to_image'"}

\* a process_audio without the finally clause
ProcessAudioRaisesNoFinally ==
    /\ vpc = "transcribe"
    /\ \E outcome \in {o \in TranscriptionOutcomes : o.kind = "text" /\ o.text # ""},
          e \in UnexpectedErrors :
         /\ transcription_calls' =
                Append(transcription_calls,
                       [audio |-> run_input.data, outcome |-> outcome])
         /\ transcript' = Str(outcome.text)
         /\ shown' = <<"error: An error occurred: " \o e>>
    /\ processed_audio_hash' = None
    /\ vpc' = "idle"
    /\ UNCHANGED <<processing, current_result, history, run_input,
                   pipeline_result, expand_calls, image_calls, conversion_vars,
                   chat_side>>

\* process_audio has a transcript and the call of process_voice_to_image
\* raises: the except clause and the finally clause
ProcessAudioRaises ==
    /\ vpc = "transcribe"
    /\ \E outcome \in {o \in TranscriptionOutcomes : o.kind = "text" /\ o.text # ""},
          e \in UnexpectedErrors :
         /\ transcription_calls' =
                Append(transcription_calls,
                       [audio |-> run_input.data, outcome |-> outcome])
         /\ transcript' = Str(outcome.text)
         /\ shown' = <<"error: An error occurred: " \o e>>
    /\ processed_audio_hash' = None
    /\ processing' = FALSE
    /\ vpc' = "idle"
    /\ UNCHANGED <<current_result, history, run_input, pipeline_result,
                   expand_calls, image_calls, conversion_vars, chat_side>>

\* a process_audio that tests the transcript with "is None"
TranscribeReturnsNoneOnly ==
    /\ vpc = "transcribe"
    /\ \E outcome \in TranscriptionOutcomes :
         /\ transcription_calls' =
                Append(transcription_calls,
                       [audio |-> run_input.data, outcome |-> outcome])
         /\ transcript' = transcribe_audio(outcome)
         /\ IF transcript' = None
            THEN /\ shown' = << "error: Failed to transcribe audio. Please try again.",
                                "info: Tips: Speak clearly, reduce background noise, and ensure your microphone is working." >>
                 /\ processing' = FALSE
                 /\ processed_audio_hash' = None
                 /\ vpc' = "idle"
                 /\ UNCHANGED pipeline_result
            ELSE /\ pipeline_result' = InitialResult(transcript'.v)
                 /\ vpc' = "expand"
                 /\ UNCHANGED <<shown, processing, processed_audio_hash>>
    /\ UNCHANGED <<current_result, history, run_input, expand_calls,
                   image_calls, conversion_vars,
                   chat_side>>

\* transcribe_audio returns: without a transcript process_audio reports the
\* failure and returns, with one it calls process_voice_to_image
TranscribeReturns ==
    /\ vpc = "transcribe"
    /\ \E outcome \in TranscriptionOutcomes :
         /\ transcription_calls' =
                Append(transcription_calls,
                       [audio |-> run_input.data, outcome |-> outcome])
         /\ transcript' = transcribe_audio(outcome)
         /\ IF ~Truthy(transcript')
            THEN /\ shown' = << "error: Failed to transcribe audio. Please try again.",
                                "info: Tips: Speak clearly, reduce background noise, and ensure your microphone is working." >>
                 /\ processing' = FALSE
                 /\ processed_audio_hash' = None
                 /\ vpc' = "idle"
                 /\ UNCHANGED pipeline_result
            ELSE /\ pipeline_result' = InitialResult(transcript'.v)
                 /\ vpc' = "expand"
                 /\ UNCHANGED <<shown, processing, processed_audio_hash>>
    /\ UNCHANGED <<current_result, history, run_input, expand_calls,
                   image_calls, conversion_vars,
                   chat_side>>

\* the Generate Image from Text button, up to the call of
\* process_voice_to_image
generate_from_text(text_input) ==
    /\ vpc = "idle"
    /\ Len(history) < MaxResults
    /\ run_input' = [kind |-> "text", data |-> text_input]
    /\ transcription_calls' = <<>>
    /\ expand_calls' = <<>>
    /\ image_calls' = <<>>
    /\ decode_attempts' = <<>>
    /\ wav_bytes' = NoWav
    /\ IF text_input # "" /\ strip(text_input) # ""
       THEN IF ~processing
            THEN /\ transcript' = Str(strip(text_input))
                 /\ pipeline_result' = InitialResult(strip(text_input))
                 /\ shown' = <<>>
                 /\ vpc' = "expand"
            ELSE /\ shown' = <<"warning: Processing in progress. Please wait.">>
                 /\ UNCHANGED <<transcript, pipeline_result, vpc>>
       ELSE /\ shown' = <<"warning: Please enter a description first.">>
            /\ UNCHANGED <<transcript, pipeline_result, vpc>>
    /\ UNCHANGED <<processing, processed_audio_hash, current_result, history,
                   chat_side>>

\* a caller that leaves the fingerprint in place when the pipeline failed
PipelineReturnsKeepsHash(result) ==
    /\ vpc' = "idle"
    /\ IF Truthy(DictGet(result, "error", None))
       THEN /\ shown' = <<"error: Error during processing: "
                              \o DictItem(result, "error").v>>
            /\ UNCHANGED <<current_result, history, processed_audio_hash>>
            /\ IF run_input.kind # "text"
               THEN processing' = FALSE
               ELSE UNCHANGED processing
       ELSE /\ current_result' = result
            /\ history' = <<result>> \o history
            /\ shown' = <<"success: Image generated successfully!">>
            /\ IF run_input.kind # "text"
               THEN processing' = FALSE /\ UNCHANGED processed_audio_hash
               ELSE UNCHANGED <<processing, processed_audio_hash>>

\* a caller that puts the result at the end of the history
PipelineReturnsAppends(result) ==
    /\ vpc' = "idle"
    /\ IF Truthy(DictGet(result, "error", None))
       THEN /\ shown' = <<"error: Error during processing: "
                              \o DictItem(result, "error").v>>
            /\ UNCHANGED <<current_result, history>>
            /\ IF run_input.kind # "text"
               THEN processing' = FALSE /\ processed_audio_hash' = None
               ELSE UNCHANGED <<processing, processed_audio_hash>>
       ELSE /\ current_result' = result
            /\ history' = Append(history, result)
            /\ shown' = <<"success: Image generated successfully!">>
            /\ IF run_input.kind # "text"
               THEN processing' = FALSE /\ UNCHANGED processed_audio_hash
               ELSE UNCHANGED <<processing, processed_audio_hash>>

\* process_voice_to_image has returned the result to its caller
PipelineReturns(result) ==
    /\ vpc' = "idle"
    /\ IF Truthy(DictGet(result, "error", None))
       THEN /\ shown' = <<"error: Error during processing: "
                              \o DictItem(result, "error").v>>
            /\ UNCHANGED <<current_result, history>>
            /\ IF run_input.kind # "text"
               THEN processing' = FALSE /\ processed_audio_hash' = None
               ELSE UNCHANGED <<processing, processed_audio_hash>>
       ELSE /\ current_result' = result
            /\ history' = <<result>> \o history
            /\ shown' = <<"success: Image generated successfully!">>
            /\ IF run_input.kind # "text"
               THEN processing' = FALSE /\ UNCHANGED processed_audio_hash
               ELSE UNCHANGED <<processing, processed_audio_hash>>

\* a step 1 whose failure goes on to step 2 with an empty description
ExpandFailureGoesOn ==
    /\ vpc = "expand"
    /\ \E outcome \in ExpandOutcomes :
         LET step == transcript_to_image_description(outcome) IN
         /\ expand_calls' =
                Append(expand_calls,
                       [transcript |-> DictItem(pipeline_result, "transcript").v,
                        ok |-> outcome.ok])
         /\ pipeline_result' =
                DictSet(pipeline_result, "image_description",
                        Str(IF step.ok THEN step.description ELSE ""))
         /\ vpc' = "render"
         /\ UNCHANGED <<processing, processed_audio_hash, current_result,
                        history, shown>>
    /\ UNCHANGED <<run_input, transcript, transcription_calls, image_calls,
                   conversion_vars,
                   chat_side>>

\* step 1 of process_voice_to_image: the completion service answers
ExpandReturns ==
    /\ vpc = "expand"
    /\ \E outcome \in ExpandOutcomes :
         LET step == transcript_to_image_description(outcome) IN
         /\ expand_calls' =
                Append(expand_calls,
                       [transcript |-> DictItem(pipeline_result, "transcript").v,
                        ok |-> outcome.ok])
         /\ IF step.ok
            THEN /\ pipeline_result' =
                        DictSet(pipeline_result, "image_description",
                                Str(step.description))
                 /\ vpc' = "render"
                 /\ UNCHANGED <<processing, processed_audio_hash,
                                current_result, history, shown>>
            ELSE /\ pipeline_result' =
                        DictSet(pipeline_result, "error", Str(step.error))
                 /\ PipelineReturns(pipeline_result')
    /\ UNCHANGED <<run_input, transcript, transcription_calls, image_calls,
                   conversion_vars,
                   chat_side>>

\* step 2 of process_voice_to_image: the image service answers
RenderReturns ==
    /\ vpc = "render"
    /\ \E outcome \in RenderOutcomes :
         LET step == generate_image(outcome) IN
         /\ image_calls' =
                Append(image_calls,
                       [prompt |-> DictItem(pipeline_result, "image_description").v,
                        ok |-> outcome.ok])
         /\ pipeline_result' =
                IF step.ok
                THEN DictSet(pipeline_result, "image_url", Str(step.image_url))
                ELSE DictSet(pipeline_result, "error", Str(step.error))
         /\ PipelineReturns(pipeline_result')
    /\ UNCHANGED <<run_input, transcript, transcription_calls, expand_calls,
                   conversion_vars,
                   chat_side>>

\* the Clear History button
clear_history ==
    /\ vpc = "idle"
    /\ history' = <<>>
    /\ current_result' = None
    /\ processed_audio_hash' = None
    /\ run_input' = [kind |-> "clear", data |-> ""]
    /\ UNCHANGED <<processing, vpc, transcript, pipeline_result,
                   shown, transcription_calls, expand_calls, image_calls,
                   conversion_vars,
                   chat_side>>

NextVoice ==
    \/ \E audio_bytes \in AudioInputs : record_audio(audio_bytes)
    \/ \E file \in UploadedFiles : upload_audio(file)
    \/ ConvertAutoDetect
    \/ ConvertAsWebM
    \/ TranscribeReturns
    \/ ProcessAudioRaises
    \/ \E text_input \in TextInputs : generate_from_text(text_input)
    \/ ExpandReturns
    \/ RenderReturns
    \/ clear_history

SpecVoice == Init /\ [][NextVoice]_vars

(***************************************************************************)
(* create_github_issue on its own: any subset of the credentials is set,   *)
(* the arguments are any of IssueRequests.                                 *)
(***************************************************************************)
IssueRequests ==
    [title : {Str("Dashboard is broken"), Str("")},
     description : {Str("The dashboard shows no data"), Str("x")},
     labels : {None, List(<<>>), List(<<Str("bug")>>)}]

InitTracker ==
    /\ VoiceSessionStart
    /\ github_env \in SUBSET GitHubVariables
    /\ issue_request \in IssueRequests
    /\ issue_result = <<>>
    /\ gate_query = ""
    /\ gate_result = <<>>
    /\ conversation_history = <<>>
    /\ pc = "idle"
    /\ user_message = ""
    /\ force_ticket = FALSE
    /\ message = NoMessage
    /\ tool_index = 0
    /\ returned = None
    /\ raised = None
    /\ completion_calls = <<>>
    /\ store_calls = <<>>
    /\ tracker_calls = <<>>
    /\ github_requests = <<>>
    /\ history_before = <<>>

\* create_github_issue is called with the arguments
IssueCall ==
    /\ issue_result = <<>>
    /\ \E outcome \in TicketOutcomes :
         LET call == create_github_issue(issue_request.title,
                                         issue_request.description,
                                         issue_request.labels, outcome)
         IN /\ issue_result' = call.result
            /\ github_requests' = call.requests
    /\ UNCHANGED <<conversation_history, github_env, pc, user_message,
                   force_ticket, message, tool_index, returned, raised,
                   completion_calls, store_calls, tracker_calls,
                   history_before, gate_query, gate_result, issue_request,
                   voice_vars>>

NextTracker == IssueCall

SpecTracker == InitTracker /\ [][NextTracker]_vars

(***************************************************************************)
(* The safety gate on its own: the input is any string of GateInputs.      *)
(***************************************************************************)
\* how an input starts
Prefixes == {"", "x ", "SELECT ", "select", " \n\tSeLeCt "}

\* what follows: the denylisted keywords, in upper, lower or mixed case or
\* inside an identifier, and filler
Fragments ==
    { "DROP", "delete", "Truncate", "ALTER", "create", "INSERT", "updated_at",
      "exec", "EXECUTE", "grant", "REVOKE", "merge", "replace", "x", " " }

RECURSIVE Concatenations(_)
\* the concatenations of exactly n fragments
Concatenations(n) ==
    IF n = 0 THEN {""}
    ELSE {s \o f : s \in Concatenations(n - 1), f \in Fragments}

GateInputs ==
    {p \o s : p \in Prefixes,
              s \in UNION {Concatenations(n) : n \in 0..MaxFragments}}

InitGate ==
    /\ NoIssueCall
    /\ VoiceSessionStart
    /\ gate_query \in GateInputs
    /\ gate_result = <<>>
    /\ conversation_history = <<>>
    /\ github_env = {}
    /\ pc = "idle"
    /\ user_message = ""
    /\ force_ticket = FALSE
    /\ message = NoMessage
    /\ tool_index = 0
    /\ returned = None
    /\ raised = None
    /\ completion_calls = <<>>
    /\ store_calls = <<>>
    /\ tracker_calls = <<>>
    /\ github_requests = <<>>
    /\ history_before = <<>>

\* the gate is applied to the input
GateCall ==
    /\ gate_result = <<>>
    /\ gate_result' = _check_query_safety(gate_query)
    /\ UNCHANGED <<gate_query, github_env, chat_vars, other_vars>>

NextGate == GateCall

SpecGate == InitGate /\ [][NextGate]_vars

(***************************************************************************)
(* Properties.                                                             *)
(***************************************************************************)
\* the trimmed, upper-cased query starts with SELECT
StartsWithSelect(query) == startswith(strip(upper(query)), "SELECT")

\* the denylisted keywords the trimmed, upper-cased query contains
KeywordsIn(query) ==
    LET normalized == strip(upper(query)) IN
    {i \in 1..Len(DANGEROUS_KEYWORDS) :
        contains(DANGEROUS_KEYWORDS[i], normalized)}

\* C1: every query passed to execute_query starts with SELECT after
\* trimming and upper-casing and contains no denylisted keyword; a query the
\* gate rejects never reaches the store.
C1_StoreGetsOnlyAllowedQueries ==
    \A i \in 1..Len(store_calls) :
        /\ StartsWithSelect(store_calls[i])
        /\ KeywordsIn(store_calls[i]) = {}

\* a call in which one query was executed and another one was rejected
C1_Witness ==
    /\ pc = "awaiting_final_completion"
    /\ store_calls = <<SafeQuery>>
    /\ \E i \in 1..Len(conversation_history) :
         /\ conversation_history[i].role = "tool"
         /\ contains(NotAllowedReason("UPDATE"), conversation_history[i].content.v)

\* C2: a query whose trimmed, upper-cased form does not start with SELECT is
\* rejected with the reason "Only SELECT queries are allowed for safety.",
\* whether or not it contains denylisted keywords.
C2_NonSelectRejected ==
    gate_result # <<>> /\ ~StartsWithSelect(gate_query)
        => gate_result = <<FALSE, Str(OnlySelectReason)>>

\* a rejected query that does not start with SELECT and contains a keyword
C2_Witness ==
    /\ gate_result = <<FALSE, Str(OnlySelectReason)>>
    /\ ~StartsWithSelect(gate_query)
    /\ KeywordsIn(gate_query) # {}

C4_AllowedExactlyCleanSelect ==
    gate_result # <<>>
        => /\ gate_result[1] <=> (StartsWithSelect(gate_query) /\ KeywordsIn(gate_query) = {})
           /\ gate_result[1] => gate_result[2] = None

\* an allowed query with leading whitespace
C4_Witness ==
    /\ gate_query = " \n\tSeLeCt x"
    /\ gate_result = <<TRUE, None>>

IsPrefix(a, b) == Len(a) <= Len(b) /\ SubSeq(b, 1, Len(a)) = a

Last(seq) == seq[Len(seq)]

TicketUrls == {MockUrl} \cup {o.html_url : o \in {x \in GitHubOutcomes : x.ok}}

TicketErrors == {o.error : o \in {x \in GitHubOutcomes : ~x.ok}}

\* the string holds a ticket URL, or an explicit failure reason: the
\* tracker's error or the error the call failed with
HasTicketOutcome(s) ==
    \/ \E u \in TicketUrls : contains(u, s)
    \/ \E e \in TicketErrors \cup CompletionErrors : contains(e, s)
    \/ contains("I encountered an error: ", s)

\* C6: for the utterance with a ticket-intent phrase the force-ticket flag
\* is set and the string chat returns holds a ticket URL or an explicit
\* failure reason, whatever the completion service and the tracker do.
C6_ForcedTicketReplyHasOutcome ==
    /\ pc # "idle" /\ user_message = TicketUtterance => force_ticket
    /\ pc = "idle" /\ returned # None /\ user_message = TicketUtterance
           => HasTicketOutcome(returned.v)

\* how far a chat call has come
Rank(position) ==
    CASE position = "awaiting_completion" -> 1
      [] position = "direct_ticket" -> 2
      [] position = "tool_execution" -> 2
      [] position = "awaiting_final_completion" -> 3
      [] position = "idle" -> 4

\* C7: every chat call ends by returning exactly one string, on every path
\* (plain reply, direct ticket, tools and final completion, exception): no
\* string is returned while the call runs, every step of the call either ends
\* it with a string, leaving the agent idle for the next call, or moves it
\* forward, so that the call cannot go on forever.
C7_TurnEmitsOneString ==
    [][ pc # "idle"
        => /\ returned = None
           /\ \/ pc' = "idle" /\ returned' # None /\ returned'.t = "str"
              \/ /\ pc' # "idle" /\ returned' = None
                 /\ \/ Rank(pc') > Rank(pc)
                    \/ Rank(pc') = Rank(pc) /\ tool_index' > tool_index ]_vars

\* a call that ran tools and ended with the fallback text of the final
\* completion
C7_Witness ==
    /\ pc = "idle"
    /\ returned = Str(DefaultReply)
    /\ Len(completion_calls) = 2

\* the string is the failure report of a direct ticket
IsTicketFailure(s) == contains("I attempted to create a support ticket", s)

\* C8: after a chat call that returns a ticket confirmation or a normal
\* reply, the last turn of the history is an assistant turn whose content is
\* the returned string.
C8_ReplyIsLastTurn ==
    [][ /\ pc # "idle" /\ pc' = "idle"
        /\ raised' = None
        /\ ~IsTicketFailure(returned'.v)
        => /\ conversation_history' # <<>>
           /\ Last(conversation_history') = AssistantTurn(returned'.v) ]_vars

\* the turn records a tool invocation or a tool result
IsToolTurn(turn) ==
    \/ turn.role = "tool"
    \/ turn.role = "assistant" /\ "tool_calls" \in DOMAIN turn

\* C9: when a completion call raises, the arguments of a tool invocation
\* cannot be used or its result cannot be serialised, chat returns the apology
\* that offers a support ticket; the history is left as it was at the
\* failure: the turns of before the call, the user turn and the tool turns
\* appended so far, and no assistant reply.
C9_ExceptionKeepsPartialHistory ==
    [][ raised = None /\ raised' # None
        => /\ pc' = "idle"
           /\ returned' = Str(ErrorReply(raised'.v))
           /\ contains("Would you like me to create a support ticket", returned'.v)
           /\ IsPrefix(conversation_history, conversation_history')
           /\ raised' # Str(NotSerializable)
                  => conversation_history' = conversation_history
           /\ IsPrefix(history_before' \o <<UserTurn(user_message')>>,
                       conversation_history')
           /\ \A i \in (Len(history_before') + 2)..Len(conversation_history') :
                  IsToolTurn(conversation_history'[i]) ]_vars

\* a call on a non-empty history that failed after it had appended tool turns
C9_Witness ==
    /\ pc = "idle"
    /\ raised # None
    /\ history_before # <<>>
    /\ Len(conversation_history) >= Len(history_before) + 3

\* C10 as stated: with no ticket-intent phrase and no tool invocation in the
\* completion, chat makes one completion call, calls neither the store nor
\* the tracker, and returns the text of the completion.
C10_Original ==
    [][ /\ pc = "awaiting_completion"
        /\ ~force_ticket
        /\ raised' = None
        /\ message'.tool_calls = <<>>
        => /\ pc' = "idle"
           /\ Len(completion_calls') = 1
           /\ store_calls' = <<>> /\ tracker_calls' = <<>> /\ github_requests' = <<>>
           /\ returned' = message'.content ]_vars

\* C10: with no ticket-intent phrase and no tool invocation in the
\* completion, chat makes one completion call, calls neither the store nor
\* the tracker, and returns the text of the completion, or the fixed text
\* "I've processed your request." when the completion has no text.
C10_PlainReply ==
    [][ /\ pc = "awaiting_completion"
        /\ ~force_ticket
        /\ raised' = None
        /\ message'.tool_calls = <<>>
        => /\ pc' = "idle"
           /\ Len(completion_calls') = 1
           /\ store_calls' = <<>> /\ tracker_calls' = <<>> /\ github_requests' = <<>>
           /\ returned' = IF message'.content \in {None, Str("")}
                          THEN Str(DefaultReply) ELSE message'.content ]_vars

\* a plain reply: one completion call, its text returned
C10_Witness ==
    /\ pc = "idle"
    /\ ~force_ticket
    /\ raised = None
    /\ Len(completion_calls) = 1
    /\ returned = message.content
    /\ store_calls = <<>> /\ tracker_calls = <<>>

\* the names of the tools the loop of chat has a branch for
ToolNames == {"query_database", "create_support_ticket"}

\* the tool-result turns the current call has appended to the history h
ToolResultsOf(h) ==
    SelectSeq(SubSeq(h, Len(history_before) + 2, Len(h)),
              LAMBDA turn : turn.role = "tool")

\* C11 as stated: a call whose first completion returned tool invocations
\* ends after exactly two completion calls, the second one without tools and
\* with the whole history, and returns the text of the second completion,
\* which is the last turn of the history.
C11_Original ==
    [][ pc # "idle" /\ pc' = "idle" /\ tool_index >= 1
        => /\ Len(completion_calls') = 2
           /\ completion_calls'[2].tools = <<>>
           /\ completion_calls'[2].messages = conversation_history
           /\ returned' = message'.content
           /\ Last(conversation_history') =
                  [role |-> "assistant", content |-> message'.content] ]_vars

\* C11: a call makes at most two completion calls.  When the first
\* completion returned tool invocations and handling none of them raised,
\* the second completion call is made after the loop has passed every
\* invocation, offers no tools and carries the whole history, with the
\* result turn of every invocation that names one of the two tools; its text,
\* or "I've processed your request." when it has none, is appended as the
\* last assistant turn and returned.  When handling an invocation raises, the
\* call ends with the apology and makes no second completion call.
C11_ToolRoundTrip ==
    [][ /\ Len(completion_calls') <= 2
        /\ pc # "idle" /\ pc' = "idle" /\ tool_index >= 1
           => IF pc = "tool_execution"
              THEN /\ raised' # None
                   /\ Len(completion_calls') = 1
                   /\ returned' = Str(ErrorReply(raised'.v))
              ELSE /\ pc = "awaiting_final_completion"
                   /\ tool_index = Len(message.tool_calls) + 1
                   /\ Len(completion_calls') = 2
                   /\ completion_calls'[2].tools = <<>>
                   /\ completion_calls'[2].tool_choice = ""
                   /\ completion_calls'[2].messages = conversation_history
                   /\ LET named == SelectSeq(message.tool_calls,
                                     LAMBDA c : c.function.name \in ToolNames)
                          results == ToolResultsOf(conversation_history)
                      IN /\ Len(results) = Len(named)
                         /\ \A j \in 1..Len(named) :
                                results[j].tool_call_id = named[j].id
                   /\ raised' = None
                      => /\ returned' = PyOr(message'.content, Str(DefaultReply))
                         /\ conversation_history' =
                                Append(conversation_history,
                                       AssistantTurn(returned'.v))
                   /\ raised' # None
                      => returned' = Str(ErrorReply(raised'.v)) ]_vars

\* a call that handled two invocations and returned the text of the second
\* completion
C11_Witness ==
    /\ pc = "idle"
    /\ raised = None
    /\ tool_index = 3
    /\ Len(completion_calls) = 2
    /\ returned = Str("Sales are highest in the North region.")
    /\ Last(conversation_history) = AssistantTurn(returned.v)

\* C12: when force_ticket is set and the first completion has no tool
\* invocation, chat calls the issue tracker exactly once, with the utterance
\* as description, makes no further completion call, and returns the
\* confirmation with the ticket's URL when the tracker reports success, the
\* failure string with the tracker's error otherwise.
C12_DirectTicketPath ==
    [][ /\ ( /\ pc = "awaiting_completion" /\ force_ticket
              /\ raised' = None /\ message'.tool_calls = <<>> )
           => pc' = "direct_ticket" /\ tracker_calls' = <<>>
        /\ pc = "direct_ticket"
           => /\ pc' = "idle"
              /\ completion_calls' = completion_calls
              /\ Len(completion_calls') = 1
              /\ Len(tracker_calls') = 1
              /\ tracker_calls'[1].description = Str(user_message)
              /\ raised' = None
              /\ returned'.t = "str"
              /\ LET result == tracker_calls'[1].result IN
                 IF DictItem(result, "success") = Bool(TRUE)
                 THEN /\ startswith(returned'.v, "I've created a support ticket")
                      /\ contains(DictItem(result, "url").v, returned'.v)
                 ELSE /\ IsTicketFailure(returned'.v)
                      /\ contains(DictItem(result, "error").v, returned'.v) ]_vars

\* a direct ticket that the tracker refused
C12_Witness ==
    /\ pc = "idle"
    /\ force_ticket
    /\ message.tool_calls = <<>>
    /\ Len(tracker_calls) = 1
    /\ Len(github_requests) = 1
    /\ Len(completion_calls) = 1
    /\ returned # None
    /\ contains("401 Bad credentials", returned.v)

\* the positions of user_message where "for" starts
ForAt(msg) == {i \in 1..(Len(msg) - 2) : SubSeq(msg, i, i + 2) = "for"}

\* what follows the "for" at position i
RestAfter(msg, i) == SubSeq(msg, i + 3, Len(msg))

FallbackTitle == "Support Request"

\* the titles worked out by hand for the utterances of the model
ExpectedTitles ==
    [msg \in DirectUtterances |->
        CASE msg = "file a ticket for the dashboard" -> "the dashboard"
          [] msg = "file a ticket for login and for export" -> "export"
          [] msg = "information is wrong, file a ticket" ->
                 "mation is wrong, file a ticket"
          [] OTHER -> FallbackTitle]

\* C13 as stated: the ticket of the direct path has the utterance as
\* description, the labels ["support"], and as title what follows "for" when
\* "for" is present and what follows has at least 5 characters, the fallback
\* title otherwise.
C13_Original ==
    [][ pc = "direct_ticket"
        => LET request == tracker_calls'[1]
               long == {i \in ForAt(user_message) :
                           Len(RestAfter(user_message, i)) >= 5}
           IN /\ request.description = Str(user_message)
              /\ request.labels = List(<<Str("support")>>)
              /\ IF long # {}
                 THEN \E i \in long :
                         request.title = Str(RestAfter(user_message, i))
                 ELSE request.title = Str(FallbackTitle) ]_vars

\* C13: the ticket of the direct path has the utterance as description and
\* the labels ["support"]; its title is what follows the last occurrence of
\* the lower-case substring "for" in the utterance, inside a word or not,
\* with the whitespace around it trimmed, when "for" occurs and the trimmed
\* text has at least 5 characters, and "Support Request" otherwise.
C13_DirectTicketRequest ==
    [][ pc = "direct_ticket"
        => LET request == tracker_calls'[1]
               at == ForAt(user_message)
           IN /\ request.description = Str(user_message)
              /\ request.labels = List(<<Str("support")>>)
              /\ request.title = Str(ExpectedTitles[user_message])
              /\ IF at = {} THEN request.title = Str(FallbackTitle)
                 ELSE LET last == CHOOSE i \in at : \A j \in at : j <= i
                          trimmed == strip(RestAfter(user_message, last))
                      IN request.title =
                             Str(IF Len(trimmed) >= 5 THEN trimmed
                                 ELSE FallbackTitle) ]_vars

\* a direct ticket titled by what follows the second "for"
C13_Witness ==
    /\ pc = "idle"
    /\ user_message = "file a ticket for login and for export"
    /\ Len(tracker_calls) = 1
    /\ tracker_calls[1].title = Str("export")

\* the turns the current call has appended after the user turn
AddedTurns ==
    SubSeq(conversation_history, Len(history_before) + 2,
           Len(conversation_history))

\* the turn is a tool-result turn that carries a result payload
IsResultOf(turn, tool_call) ==
    /\ turn.role = "tool"
    /\ turn.tool_call_id = tool_call.id
    /\ startswith(turn.content.v, "{\"success\": ")

\* C14 as stated: when a call that ran tools ends, the history holds, for
\* every invocation of the first completion and in their order, the assistant
\* turn recording it followed by its result turn, so that there are as many
\* result turns as invocations.
C14_Original ==
    [][ pc # "idle" /\ pc' = "idle" /\ tool_index >= 1
        => LET calls == message.tool_calls
               results == ToolResultsOf(conversation_history')
           IN /\ Len(results) = Len(calls)
              /\ \A j \in 1..Len(calls) :
                     results[j].tool_call_id = calls[j].id ]_vars

\* C14: while the loop runs and when it is over, the turns the call has
\* appended are, for every invocation the loop has passed that names one of
\* the two tools and in their order, the assistant turn recording the
\* invocation followed at once by one result turn with the same id and a
\* result payload, the payload of the tracker for a ticket; an invocation
\* that names another tool adds no turn.  There are as many result turns as
\* invocations only when all name one of the two tools and none raises.
C14_ToolTurnsPaired ==
    pc \in {"tool_execution", "awaiting_final_completion"}
        => LET passed == SubSeq(message.tool_calls, 1, tool_index - 1)
               named == SelectSeq(passed,
                                  LAMBDA c : c.function.name \in ToolNames)
               tickets == SelectSeq(named,
                              LAMBDA c : c.function.name = "create_support_ticket")
               ticket_results ==
                   SelectSeq(AddedTurns,
                       LAMBDA turn : /\ turn.role = "tool"
                                     /\ \E c \in {tickets[k] : k \in 1..Len(tickets)} :
                                            c.id = turn.tool_call_id)
           IN /\ Len(AddedTurns) = 2 * Len(named)
              /\ \A j \in 1..Len(named) :
                     /\ AddedTurns[2 * j - 1] =
                            ToolCallTurn(message.content, named[j])
                     /\ IsResultOf(AddedTurns[2 * j], named[j])
              /\ Len(tracker_calls) = Len(tickets)
              /\ \A k \in 1..Len(tickets) :
                     ticket_results[k].content =
                         Str(json_dumps(tracker_calls[k].result))
              /\ (pc = "awaiting_final_completion"
                     /\ \A j \in 1..Len(message.tool_calls) :
                            message.tool_calls[j].function.name \in ToolNames)
                 => Len(ToolResultsOf(conversation_history))
                        = Len(message.tool_calls)

\* the loop has passed a query and a ticket and appended both pairs of turns
C14_Witness ==
    /\ pc = "awaiting_final_completion"
    /\ Len(message.tool_calls) = 2
    /\ message.tool_calls[1].function.name = "query_database"
    /\ message.tool_calls[2].function.name = "create_support_ticket"
    /\ Len(ToolResultsOf(conversation_history)) = 2
    /\ Len(AddedTurns) = 4

\* the answer create_github_issue gives without credentials
MockPayload ==
    Dict(<< <<"success", Bool(TRUE)>>,
            <<"url", Str("https://github.com/example/issues/1")>>,
            <<"message", Str("Support ticket created (mock - configure GitHub credentials for real tickets)")>> >>)

\* C15: when the token, the repository owner or the repository name is not
\* set, create_github_issue returns the same success payload with the
\* placeholder URL whatever the title, the description and the labels are,
\* and sends nothing to the GitHub API.
C15_MockWithoutCredentials ==
    issue_result # <<>> /\ ~(GitHubVariables \subseteq github_env)
        => /\ issue_result = MockPayload
           /\ github_requests = <<>>

\* a call with the repository name alone missing
C15_Witness ==
    /\ github_env = {"GITHUB_TOKEN", "GITHUB_REPO_OWNER"}
    /\ issue_request.labels = List(<<Str("bug")>>)
    /\ issue_result = MockPayload
    /\ github_requests = <<>>

\* the keys of the pipeline result, none before process_voice_to_image runs
ResultKeys(result) == IF result.t = "dict" THEN DictKeys(result) ELSE {}

\* the field of the result holds a non-empty string
Populated(result, key) ==
    /\ key \in ResultKeys(result)
    /\ DictItem(result, key).t = "str"
    /\ DictItem(result, key).v # ""

\* C16: when the image service fails on the description of a transcript,
\* process_voice_to_image returns, without raising, a result that keeps the
\* fields it had, with the transcript and the description, that has no
\* image_url, and whose error is the message of the failure; the caller
\* reports the error and adds nothing to the history.
C16_RenderFailureKeepsFields ==
    [][ vpc = "render" /\ ~Last(image_calls').ok
        => /\ vpc' = "idle"
           /\ Populated(pipeline_result', "transcript")
           /\ DictItem(pipeline_result', "transcript") = transcript
           /\ Populated(pipeline_result', "image_description")
           /\ DictItem(pipeline_result', "image_description").v
                  = Last(image_calls').prompt
           /\ "image_url" \notin ResultKeys(pipeline_result')
           /\ Populated(pipeline_result', "error")
           /\ IsPrefix(pipeline_result.v, pipeline_result'.v)
           /\ history' = history /\ current_result' = current_result
           /\ shown' = <<"error: Error during processing: "
                             \o DictItem(pipeline_result', "error").v>> ]_vars

\* a run from audio whose image was refused
C16_Witness ==
    /\ vpc = "idle"
    /\ run_input.kind = "audio"
    /\ Len(image_calls) = 1 /\ ~image_calls[1].ok
    /\ Populated(pipeline_result, "image_description")
    /\ Populated(pipeline_result, "error")
    /\ "image_url" \notin ResultKeys(pipeline_result)

\* C17: when step 1 fails, by an exception of the completion service or on
\* a completion without text, process_voice_to_image returns at once: the
\* image service is not called, and the result has the transcript, neither
\* image_description nor image_url, and the message of the failure as error.
C17_ExpandFailureHalts ==
    /\ image_calls # <<>>
           => /\ Len(expand_calls) = 1 /\ expand_calls[1].ok
              /\ Populated(pipeline_result, "image_description")
    /\ (vpc = "idle" /\ expand_calls # <<>> /\ image_calls = <<>>)
           => /\ Populated(pipeline_result, "transcript")
              /\ DictItem(pipeline_result, "transcript") = transcript
              /\ "image_description" \notin ResultKeys(pipeline_result)
              /\ "image_url" \notin ResultKeys(pipeline_result)
              /\ Populated(pipeline_result, "error")

\* a run whose completion had no text: the image service was not called
C17_Witness ==
    /\ vpc = "idle"
    /\ Len(expand_calls) = 1 /\ expand_calls[1].ok
    /\ image_calls = <<>>
    /\ Populated(pipeline_result, "transcript")
    /\ Populated(pipeline_result, "error")

\* the transcription service gave no text: the audio was not understood, the
\* service could not be reached or failed, or the text is empty
YieldsNoTranscript(call) ==
    call.outcome.kind # "text" \/ call.outcome.text = ""

\* C18 as stated: a run without a transcript produces a result whose
\* transcript is the empty string and whose error is populated.
C18_Original ==
    [][ vpc = "transcribe" /\ YieldsNoTranscript(Last(transcription_calls'))
        => /\ vpc' = "idle"
           /\ expand_calls' = <<>> /\ image_calls' = <<>>
           /\ "transcript" \in ResultKeys(pipeline_result')
           /\ DictItem(pipeline_result', "transcript") = Str("")
           /\ "image_description" \notin ResultKeys(pipeline_result')
           /\ "image_url" \notin ResultKeys(pipeline_result')
           /\ Populated(pipeline_result', "error") ]_vars

\* C18: a run from audio that yields no transcript (the audio was not
\* understood, the service was unreachable or failed, or the text is empty)
\* halts after transcription: neither the completion service nor the image
\* service is called, no result is produced, an error message is shown, the
\* current result and the history are unchanged, and the processing flag
\* and the audio hash are cleared.
C18_NoTranscriptHalts ==
    [][ vpc = "transcribe" /\ YieldsNoTranscript(Last(transcription_calls'))
        => /\ vpc' = "idle"
           /\ expand_calls' = <<>> /\ image_calls' = <<>>
           /\ pipeline_result' = None
           /\ Len(shown') > 0
           /\ shown'[1] = "error: Failed to transcribe audio. Please try again."
           /\ current_result' = current_result /\ history' = history
           /\ processing' = FALSE
           /\ processed_audio_hash' = None ]_vars

\* the transcription service answered with an empty text and the run ended
C18_Witness ==
    /\ vpc = "idle"
    /\ Len(transcription_calls) = 1
    /\ transcription_calls[1].outcome = [kind |-> "text", text |-> ""]
    /\ pipeline_result = None
    /\ expand_calls = <<>> /\ image_calls = <<>>
    /\ Len(shown) > 0

\* C19: the conversation history is append-only: every step of a chat call
\* leaves the history it found as a prefix of the history it leaves, so the
\* history of before the call is a prefix of the history after it; between
\* calls the history changes only by reset_conversation, which empties it.
C19_AppendOnly ==
    [][ /\ (pc # "idle" \/ pc' # "idle")
            => /\ IsPrefix(conversation_history, conversation_history')
               /\ IsPrefix(history_before', conversation_history')
        /\ (pc = "idle" /\ pc' = "idle")
            => \/ conversation_history' = conversation_history
               \/ conversation_history' = <<>> ]_vars

\* a second chat call has answered and the turn of the first call is still
\* at the head of the history
C19_Witness ==
    /\ pc = "idle"
    /\ returned # None /\ raised = None
    /\ history_before # <<>>
    /\ Len(conversation_history) >= Len(history_before) + 2
    /\ IsPrefix(history_before, conversation_history)
    /\ Last(conversation_history).role = "assistant"

\* C20 as stated: in a turn whose utterance matches no ticket phrase the
\* issue tracker is never invoked.
C20_Original ==
    ~force_ticket => tracker_calls = <<>>

\* C20: the issue tracker is invoked only by the direct-ticket branch of a
\* turn whose utterance matches a ticket phrase, or for an invocation of
\* create_support_ticket that the completion requested; in a turn whose
\* utterance matches no ticket phrase, which offers the tools with tool
\* choice "auto", it is invoked only for such an invocation.
C20_TrackerOnlyWhenRequested ==
    [][ Len(tracker_calls') > Len(tracker_calls)
        => /\ Len(tracker_calls') = Len(tracker_calls) + 1
           /\ \/ /\ pc = "direct_ticket"
                 /\ force_ticket
                 /\ message.tool_calls = <<>>
                 /\ completion_calls[1].tool_choice
                        = "function:create_support_ticket"
              \/ /\ pc = "tool_execution"
                 /\ CurrentToolCall.function.name = "create_support_ticket"
                 /\ ~force_ticket => completion_calls[1].tool_choice = "auto" ]_vars

\* a turn without a ticket phrase in which the completion asked for a
\* ticket and the issue tracker was called
C20_Witness ==
    /\ pc = "idle"
    /\ ~force_ticket
    /\ Len(tracker_calls) >= 1
    /\ \E i \in 1..Len(message.tool_calls) :
          message.tool_calls[i].function.name = "create_support_ticket"

\* the ticket-intent phrases of the interface
TicketPhrases ==
    { "create a support ticket", "create support ticket", "file a ticket",
      "open a ticket", "create a ticket", "support ticket", "file ticket" }

\* the lower-cased utterance contains one of the phrases
HasTicketPhrase ==
    [msg \in DirectUtterances \cup UnforcedUtterances |->
        \E phrase \in TicketPhrases : contains(phrase, lower(msg))]

\* C21: force_ticket is set exactly when the lower-cased utterance contains
\* one of the ticket-intent phrases; the first completion call is made with
\* tool choice create_support_ticket exactly when the flag is set and with
\* tool choice "auto" otherwise, and offers both tools in either case.
C21_ForceTicketFlag ==
    /\ user_message # "" => force_ticket = HasTicketPhrase[user_message]
    /\ completion_calls # <<>>
           => /\ completion_calls[1].tool_choice =
                     (IF force_ticket THEN "function:create_support_ticket"
                      ELSE "auto")
              /\ completion_calls[1].tools =
                     <<"query_database", "create_support_ticket">>

\* a plain utterance about a ticket went out with tool choice "auto"
C21_Witness ==
    /\ user_message = "my ticket is lost"
    /\ ~force_ticket
    /\ Len(completion_calls) = 1
    /\ completion_calls[1].tool_choice = "auto"

\* the position of a keyword in DANGEROUS_KEYWORDS
KeywordIndex(keyword) ==
    CHOOSE i \in 1..Len(DANGEROUS_KEYWORDS) : DANGEROUS_KEYWORDS[i] = keyword

\* the reason names the keyword that comes first in the denylist among
\* those the query contains
NamesFirstInDenylist ==
    LET first == CHOOSE i \in KeywordsIn(gate_query) :
                     \A j \in KeywordsIn(gate_query) : i <= j
    IN gate_result = <<FALSE, Str(NotAllowedReason(DANGEROUS_KEYWORDS[first]))>>

\* C27 as stated: a query that starts with SELECT and contains EXECUTE is
\* always reported as EXEC.
C27_Original ==
    ( /\ gate_result # <<>>
      /\ StartsWithSelect(gate_query)
      /\ KeywordIndex("EXECUTE") \in KeywordsIn(gate_query) )
        => gate_result = <<FALSE, Str(NotAllowedReason("EXEC"))>>

\* C27: when a query that starts with SELECT contains several denylisted
\* keywords, the reason names the one that comes first in the denylist,
\* wherever the keywords stand in the query; so a query with EXECUTE is
\* reported as EXEC unless it contains a keyword that comes before EXEC in
\* the denylist, which is then the one named, and no input gets the reason
\* that names EXECUTE.
C27_DenylistOrderDecides ==
    gate_result # <<>>
        => /\ ( /\ StartsWithSelect(gate_query)
                /\ Cardinality(KeywordsIn(gate_query)) >= 2 )
                  => NamesFirstInDenylist
           /\ ( /\ StartsWithSelect(gate_query)
                /\ KeywordIndex("EXECUTE") \in KeywordsIn(gate_query) )
                  => IF \E i \in KeywordsIn(gate_query) : i < KeywordIndex("EXEC")
                     THEN NamesFirstInDenylist
                     ELSE gate_result = <<FALSE, Str(NotAllowedReason("EXEC"))>>
           /\ gate_result # <<FALSE, Str(NotAllowedReason("EXECUTE"))>>

\* EXECUTE stands first in the query and DROP, first in the denylist, is
\* the keyword named
C27_Witness ==
    /\ gate_query = "SELECT EXECUTEDROP"
    /\ gate_result = <<FALSE, Str(NotAllowedReason("DROP"))>>

\* C26: every invocation of query_database that the dispatcher runs, whether
\* the gate rejects the query, the store fails or the store returns rows,
\* raises nothing and is followed by the append of its tool-result turn and
\* by the next step of the turn (the next invocation or the final
\* completion), never by the end of the turn.
C26_QueryTurnContinues ==
    [][ ( /\ pc = "tool_execution"
          /\ ArgumentError(CurrentToolCall) = ""
          /\ CurrentToolCall.function.name = "query_database" )
        => /\ raised' = None
           /\ pc' \in {"tool_execution", "awaiting_final_completion"}
           /\ Len(conversation_history') = Len(conversation_history) + 2
           /\ Last(conversation_history').role = "tool"
           /\ Last(conversation_history').tool_call_id = CurrentToolCall.id ]_vars

\* the run was started by the recorder or by the uploader
FromAudio(input) == input.kind \in {"audio", "upload"}

\* no collaborator has been called in this run of the script
NoCollaboratorCalled ==
    /\ decode_attempts = <<>>
    /\ transcription_calls = <<>>
    /\ expand_calls = <<>>
    /\ image_calls = <<>>

C23_FingerprintSuppresses ==
    [][ /\ ( /\ vpc = "idle"
             /\ FromAudio(run_input')
             /\ get_audio_hash(run_input'.data) = processed_audio_hash )
               => /\ vpc' = "idle"
                  /\ NoCollaboratorCalled'
                  /\ UNCHANGED <<processed_audio_hash, history, current_result>>
        /\ (vpc # "idle" /\ vpc' = "idle" /\ FromAudio(run_input))
               => processed_audio_hash' =
                      (IF history' # history
                       THEN get_audio_hash(run_input.data) ELSE None)
        /\ run_input'.kind = "clear" => processed_audio_hash' = None
        /\ ( /\ vpc = "idle"
             /\ run_input'.kind = "audio"
             /\ processed_audio_hash = None
             /\ Len(history) < MaxResults )
               => vpc' = "convert" ]_vars

\* the recording that gave the image in the history was submitted again
C23_Witness ==
    /\ vpc = "idle"
    /\ run_input.kind = "audio"
    /\ get_audio_hash(run_input.data) = processed_audio_hash
    /\ history # <<>>
    /\ NoCollaboratorCalled

\* C24: whenever process_audio has returned, with an image, without a
\* transcript, with a pipeline error or through its except clause, the
\* processing flag is false, and a new recording is processed.
C24_ProcessingFlagCleared ==
    [][ /\ vpc' = "idle" => ~processing'
        /\ ( /\ vpc = "idle"
             /\ run_input'.kind = "audio"
             /\ get_audio_hash(run_input'.data) # processed_audio_hash
             /\ Len(history) < MaxResults )
               => vpc' = "convert" /\ processing' ]_vars

\* process_audio went through its except clause
C24_Witness ==
    /\ vpc = "idle"
    /\ ~processing
    /\ Len(shown) = 1
    /\ startswith(shown[1], "error: An error occurred: ")

\* C25: an uploaded file of size 0, of more than 10 MB or that reads as no
\* bytes, and a description that is empty or blank, get a message on the
\* page and no call of the conversion, transcription, completion or image
\* service.
C25_ValidationBeforeCollaborators ==
    [][ /\ ( /\ vpc = "idle"
             /\ run_input'.kind = "upload"
             /\ \/ run_input'.size = 0
                \/ run_input'.size > 10 * 1024 * 1024
                \/ run_input'.data = "" )
               => /\ vpc' = "idle"
                  /\ NoCollaboratorCalled'
                  /\ Len(shown') >= 1
                  /\ startswith(shown'[1], "error: ")
                  /\ UNCHANGED <<history, current_result, processing,
                                 processed_audio_hash>>
        /\ ( /\ vpc = "idle"
             /\ run_input'.kind = "text"
             /\ strip(run_input'.data) = "" )
               => /\ vpc' = "idle"
                  /\ NoCollaboratorCalled'
                  /\ shown' = <<"warning: Please enter a description first.">>
                  /\ UNCHANGED <<history, current_result>> ]_vars

\* a file one byte over the limit was refused
C25_Witness ==
    /\ vpc = "idle"
    /\ run_input.kind = "upload"
    /\ run_input.size = 10485761
    /\ NoCollaboratorCalled
    /\ Len(shown) = 2
    /\ shown[1] = "error: File too large! Maximum size is 10.0MB. Your file is 10.0MB."

\* the result has a description and an image and no error
FullySuccessful(result) ==
    /\ Populated(result, "image_description")
    /\ Populated(result, "image_url")
    /\ "error" \notin ResultKeys(result)

====
